---- MODULE Spec2Model ----
(***************************************************************************)
(* The cross-application authentication handoff of the Momentum dashboard. *)
(*                                                                         *)
(* A marketing site sends the browser to /dashboard/auth?token=<jwt>.  The *)
(* auth handler page posts the token to POST /api/auth/verify, which       *)
(* checks it with jsonwebtoken's jwt.verify and sets the auth_token        *)
(* cookie; the route guard (middleware) then decides every request to a    *)
(* /dashboard path.  The repository holds two versions of the guard and    *)
(* two versions of the cookie-based auth handler page; the build in use is *)
(* fixed at process start and recorded in env.                             *)
(*                                                                         *)
(* The server keeps no state between requests.  The client is one browser  *)
(* (a cookie jar, sessionStorage, one location) that performs one          *)
(* operation at a time.                                                    *)
(***************************************************************************)
EXTENDS Integers, FiniteSets, Sequences, TLC

VARIABLES
    env,             \* process.env and the build, fixed at process start
    now,             \* the clock, in seconds (Math.floor(Date.now() / 1000))
    jar,             \* the browser's cookie jar: cookie name -> cookie
    sessionStorage,  \* the browser's sessionStorage: key -> value
    location,        \* window.location.href
    page,            \* the mounted AuthHandler instance (or none)
    net,             \* the HTTP exchange in flight: a request, then its response
    hist,            \* history: the answer of the latest successful handoff the
                     \* client received, and whether it has logged out since
    history,         \* the browser's session history: its latest entries
    localStorage,    \* the browser's localStorage: key -> value
    provider,        \* the mounted AuthProvider instance (or none)
    dashboard        \* the mounted dashboard layout with its useUser state

vars == <<env, now, jar, sessionStorage, location, page, net, hist,
          history, localStorage, provider, dashboard>>

-----------------------------------------------------------------------------
(* Bounds of the model.                                                    *)

\* The clock runs 0..MaxTime.
MaxTime == 2
\* The exp claim of the tokens in the pool: reached and passed within MaxTime.
TokenExp == 1
\* The clock of the long-running specification runs 0..MaxClock: past the
\* tokens' exp by more than the documented clock tolerance.
MaxClock == 13
\* The session history keeps its latest MaxHistory entries.
MaxHistory == 2

-----------------------------------------------------------------------------
(* JavaScript values.                                                      *)

Str(s) == [t |-> "string", v |-> s]
Num(s) == [t |-> "number", v |-> s]
Undefined == [t |-> "undefined", v |-> ""]

\* typeof x
TypeOf(x) == IF "t" \in DOMAIN x THEN x.t ELSE "object"

\* !x for the values of the model: undefined and "" are falsy.
Falsy(x) == x = Undefined \/ x = Str("")

-----------------------------------------------------------------------------
(* Program constants.                                                      *)

\* maxAge: 60 * 60 * 24 * 7
CookieMaxAge == 604800

\* clockTolerance: 10 of the documented validateJWT, in seconds
ClockSkewTolerance == 10

MARKETING_ROUTES == [HOME   |-> "https://trymomentum.ai",
                     LOGIN  |-> "https://trymomentum.ai/login",
                     SIGNUP |-> "https://trymomentum.ai/signup"]

\* const MARKETING_URL = process.env.NEXT_PUBLIC_MARKETING_URL || 'https://trymomentum.ai'
MARKETING_URL(e) ==
    IF Falsy(e.NEXT_PUBLIC_MARKETING_URL) THEN "https://trymomentum.ai"
    ELSE e.NEXT_PUBLIC_MARKETING_URL.v

\* `${MARKETING_URL}/login`
MarketingLogin(e) == MARKETING_URL(e) \o "/login"

-----------------------------------------------------------------------------
(* Signed tokens.                                                          *)
(*                                                                         *)
(* A compact JWT is header.payload.signature.  The model keeps the decoded *)
(* header (alg) and payload (user, exp, iat) and the signature, an HMAC    *)
(* over header and payload under a key.  An HMAC is modelled by the record *)
(* of what it was computed from: two signatures are equal exactly when key *)
(* and signed content are, and a signature with a character altered        *)
(* (flip) equals no computed one.                                          *)

ServerSecret == "jwt-secret"
OtherSecret  == "wrong-secret"

Alice == [id |-> Str("u1"), email |-> Str("alice@example.com"), name |-> Str("Alice")]
Bob   == [id |-> Str("u2"), email |-> Str("bob@example.com"), name |-> Str("Bob")]
\* payloads that are not an Identity: user.email missing, user.id a number
NoEmailUser == [id |-> Str("u1"), email |-> Undefined, name |-> Str("Alice")]
NumIdUser   == [id |-> Num("7"), email |-> Str("alice@example.com"), name |-> Str("Alice")]

Identities == {Alice, Bob}
BadUsers   == {NoEmailUser, NumIdUser}

\* The payload check the token specification asks for (user.id, user.email and
\* user.name are strings).
IsIdentity(u) ==
    /\ u # Undefined
    /\ TypeOf(u.id) = "string"
    /\ TypeOf(u.email) = "string"
    /\ TypeOf(u.name) = "string"

\* jwt.sign's signature: HMAC(key, header.payload)
Hmac(key, alg, payload) == [key |-> key, alg |-> alg, over |-> payload, flip |-> FALSE]

\* jwt.sign(payload, key): a well-formed three-segment token
Sign(payload, key) ==
    [segments |-> 3, alg |-> "HS256", payload |-> payload,
     sig |-> Hmac(key, "HS256", payload)]

\* jwt.sign(payload, key, {algorithm: alg})
SignWith(payload, key, alg) ==
    [segments |-> 3, alg |-> alg, payload |-> payload,
     sig |-> Hmac(key, alg, payload)]

\* The HMAC algorithms of JWS.
HmacAlgorithms == {"HS256", "HS384", "HS512"}

\* a token signed under the shared secret with HMAC-SHA384
Hs384Token == SignWith([user |-> Alice, exp |-> TokenExp, iat |-> 0], ServerSecret, "HS384")

\* one character of the signature segment altered
FlipSignature(tok) == [tok EXCEPT !.sig.flip = ~tok.sig.flip]

Payloads == [user : Identities \cup BadUsers, exp : {TokenExp}, iat : {0}]

\* a string that is not three dot-separated segments
GarbageToken ==
    [segments |-> 1, alg |-> "", payload |-> [user |-> Undefined, exp |-> 0, iat |-> 0],
     sig |-> Hmac("", "", [user |-> Undefined, exp |-> 0, iat |-> 0])]

SignedTokens == {Sign(p, ServerSecret) : p \in Payloads}

\* The tokens a client may present.
TokenPool ==
    SignedTokens
    \cup {Sign(p, OtherSecret) : p \in [user : {Alice}, exp : {TokenExp}, iat : {0}]}
    \cup {FlipSignature(Sign(p, ServerSecret)) : p \in [user : {Bob}, exp : {TokenExp}, iat : {0}]}
    \cup {GarbageToken}


-----------------------------------------------------------------------------
(* jsonwebtoken.                                                           *)

\* The error classes of jsonwebtoken and their prototype chain:
\* TokenExpiredError and NotBeforeError extend JsonWebTokenError, which
\* extends Error.
ErrorParent(cls) ==
    CASE cls = "TokenExpiredError" -> "JsonWebTokenError"
      [] cls = "NotBeforeError"    -> "JsonWebTokenError"
      [] cls = "JsonWebTokenError" -> "Error"
      [] cls = "SyntaxError"       -> "Error"
      [] cls = "TypeError"         -> "Error"
      [] OTHER                     -> "Object"

\* error instanceof cls: cls is on the prototype chain of the error's class
\* (the chains of the model are at most three long).
InstanceOf(error, cls) ==
    \/ error.name = cls
    \/ ErrorParent(error.name) = cls
    \/ ErrorParent(ErrorParent(error.name)) = cls

Throw(name, message) == [ok |-> FALSE, error |-> [name |-> name, message |-> message]]
Return(value) == [ok |-> TRUE, value |-> value]

\* The algorithms jwt.verify accepts for a string secret when the caller
\* passes no `algorithms` option.
DefaultHmacAlgorithms == {"HS256", "HS384", "HS512"}

\* Variant: the payload is decoded without checking the signature
\* (jwt.decode in place of jwt.verify).
jwt_verify_decodeOnly(token, secret, clock) ==
    IF token.segments # 3
      THEN Throw("JsonWebTokenError", "jwt malformed")
    ELSE IF clock >= token.payload.exp
      THEN Throw("TokenExpiredError", "jwt expired")
    ELSE Return(token.payload)

\* Variant: exp is not checked (ignoreExpiration).
jwt_verify_ignoreExpiration(token, secret, clock) ==
    IF token.segments # 3
      THEN Throw("JsonWebTokenError", "jwt malformed")
    ELSE IF token.alg \notin DefaultHmacAlgorithms
      THEN Throw("JsonWebTokenError", "invalid algorithm")
    ELSE IF token.sig # Hmac(secret, token.alg, token.payload)
      THEN Throw("JsonWebTokenError", "invalid signature")
    ELSE Return(token.payload)

\* Variant: exp is checked with a clock tolerance of 12 seconds.
jwt_verify_wideTolerance(token, secret, clock) ==
    IF token.segments # 3
      THEN Throw("JsonWebTokenError", "jwt malformed")
    ELSE IF token.alg \notin DefaultHmacAlgorithms
      THEN Throw("JsonWebTokenError", "invalid algorithm")
    ELSE IF token.sig # Hmac(secret, token.alg, token.payload)
      THEN Throw("JsonWebTokenError", "invalid signature")
    ELSE IF clock >= token.payload.exp + 12
      THEN Throw("TokenExpiredError", "jwt expired")
    ELSE Return(token.payload)

\* jwt.verify(token, secret) at clock time `clock`, with no options (no
\* clockTolerance): structure, algorithm, signature, then exp, in this order.
\* Returns the decoded payload or throws.
jwt_verify(token, secret, clock) ==
    IF token.segments # 3
      THEN Throw("JsonWebTokenError", "jwt malformed")
    ELSE IF token.alg \notin DefaultHmacAlgorithms
      THEN Throw("JsonWebTokenError", "invalid algorithm")
    ELSE IF token.sig # Hmac(secret, token.alg, token.payload)
      THEN Throw("JsonWebTokenError", "invalid signature")
    ELSE IF clock >= token.payload.exp
      THEN Throw("TokenExpiredError", "jwt expired")
    ELSE Return(token.payload)

-----------------------------------------------------------------------------
(* POST /api/auth/verify.                                                  *)

NoCookie == [name |-> ""]

\* NextResponse.json(body, {status}) with no cookie
Json(status, success, user, error) ==
    [status |-> status,
     body |-> [success |-> success, user |-> user, error |-> error],
     setCookie |-> NoCookie]

\* response.cookies.set('auth_token', token, {...})
AuthCookie(token) ==
    [name |-> "auth_token", value |-> token, httpOnly |-> TRUE, secure |-> FALSE,
     sameSite |-> "lax", maxAge |-> CookieMaxAge, path |-> "/"]

\* Request bodies: JSON {token}, JSON {} (token undefined), JSON null, not JSON.
JsonBody(token) == [kind |-> "object", token |-> token]
NullBody == [kind |-> "null", token |-> Undefined]
TextBody == [kind |-> "text", token |-> Undefined]

\* const { token } = await request.json()
request_json(body) ==
    CASE body.kind = "text" -> Throw("SyntaxError", "Unexpected token")
      [] body.kind = "null" -> Throw("TypeError", "Cannot destructure property 'token'")
      [] OTHER              -> Return(body.token)

\* The catch block of POST: the response for a thrown error.
VerifyCatch(error) ==
    IF InstanceOf(error, "JsonWebTokenError")
      THEN Json(401, FALSE, Undefined, Str("Invalid token signature"))
    ELSE IF InstanceOf(error, "TokenExpiredError")
      THEN Json(401, FALSE, Undefined, Str("Token has expired"))
    ELSE Json(401, FALSE, Undefined, Str("Token verification failed"))

\* Variant: the response reports the decoded payload in place of its user.
VerifyAndSetCookie_wholePayload(token, e, clock) ==
    LET decoded == jwt_verify(token, e.JWT_SECRET.v, clock) IN
    IF ~decoded.ok THEN VerifyCatch(decoded.error)
    ELSE [Json(200, TRUE, decoded.value, Undefined)
            EXCEPT !.setCookie = AuthCookie(token)]

\* Variant: the cookie is put on whatever response the handler ends with,
\* before the verification's result is looked at.
VerifyAndSetCookie_speculative(token, e, clock) ==
    LET decoded == jwt_verify(token, e.JWT_SECRET.v, clock) IN
    [(IF ~decoded.ok THEN VerifyCatch(decoded.error)
      ELSE Json(200, TRUE, decoded.value.user, Undefined))
        EXCEPT !.setCookie = AuthCookie(token)]

\* The try block of POST after the token and JWT_SECRET checks.
VerifyAndSetCookie(token, e, clock) ==
    LET decoded == jwt_verify(token, e.JWT_SECRET.v, clock) IN
    IF ~decoded.ok THEN VerifyCatch(decoded.error)
    ELSE [Json(200, TRUE, decoded.value.user, Undefined)
            EXCEPT !.setCookie = AuthCookie(token)]

\* export async function POST(request)
POST(body, e, clock) ==
    LET parsed == request_json(body) IN
    IF ~parsed.ok THEN VerifyCatch(parsed.error)
    ELSE IF Falsy(parsed.value)
      THEN Json(400, FALSE, Undefined, Str("Token is required"))
    ELSE IF Falsy(e.JWT_SECRET)
      THEN Json(500, FALSE, Undefined, Str("Server configuration error"))
    ELSE VerifyAndSetCookie(parsed.value, e, clock)


-----------------------------------------------------------------------------
(* GET /api/auth/me.                                                       *)

\* NextResponse.json(body, {status}) of the session reader
MeJson(status, user, error) ==
    [status |-> status, body |-> [user |-> user, error |-> error],
     setCookie |-> NoCookie]

\* The catch block of GET: the response for a thrown error.
MeCatch(error) ==
    IF InstanceOf(error, "JsonWebTokenError")
      THEN MeJson(401, Undefined, Str("Invalid token"))
    ELSE IF InstanceOf(error, "TokenExpiredError")
      THEN MeJson(401, Undefined, Str("Token expired"))
    ELSE MeJson(401, Undefined, Str("Authentication failed"))

\* Variant: the cookie's payload is decoded and returned without verifying
\* the token (jwt.decode in place of jwt.verify).
GET_decodeOnly(cookies, e, clock) ==
    LET token == cookies.auth_token IN
    IF Falsy(token)
      THEN MeJson(401, Undefined, Str("Not authenticated"))
    ELSE IF Falsy(e.JWT_SECRET)
      THEN MeJson(500, Undefined, Str("Server configuration error"))
    ELSE IF token.segments # 3
      THEN MeCatch([name |-> "JsonWebTokenError", message |-> "jwt malformed"])
    ELSE MeJson(200, token.payload.user, Undefined)

\* Variant: no catch block; an error thrown by jwt.verify leaves the handler
\* and the framework answers 500.
GET_noCatch(cookies, e, clock) ==
    LET token == cookies.auth_token IN
    IF Falsy(token)
      THEN MeJson(401, Undefined, Str("Not authenticated"))
    ELSE IF Falsy(e.JWT_SECRET)
      THEN MeJson(500, Undefined, Str("Server configuration error"))
    ELSE LET decoded == jwt_verify(token, e.JWT_SECRET.v, clock) IN
         IF ~decoded.ok THEN MeJson(500, Undefined, Str("Internal Server Error"))
         ELSE MeJson(200, decoded.value.user, Undefined)

\* Variant: the response reports the decoded payload in place of its user.
GET_wholePayload(cookies, e, clock) ==
    LET token == cookies.auth_token IN
    IF Falsy(token)
      THEN MeJson(401, Undefined, Str("Not authenticated"))
    ELSE IF Falsy(e.JWT_SECRET)
      THEN MeJson(500, Undefined, Str("Server configuration error"))
    ELSE LET decoded == jwt_verify(token, e.JWT_SECRET.v, clock) IN
         IF ~decoded.ok THEN MeCatch(decoded.error)
         ELSE MeJson(200, decoded.value, Undefined)

\* export async function GET(request): cookies is the request's cookie store.
GET(cookies, e, clock) ==
    LET token == cookies.auth_token IN
    IF Falsy(token)
      THEN MeJson(401, Undefined, Str("Not authenticated"))
    ELSE IF Falsy(e.JWT_SECRET)
      THEN MeJson(500, Undefined, Str("Server configuration error"))
    ELSE LET decoded == jwt_verify(token, e.JWT_SECRET.v, clock) IN
         IF ~decoded.ok THEN MeCatch(decoded.error)
         ELSE MeJson(200, decoded.value.user, Undefined)

-----------------------------------------------------------------------------
(* POST /api/auth/logout.                                                  *)

\* cookieStore.delete(name): a Set-Cookie with an empty value that expired
\* at the epoch, for path /.
DeletedCookie(name) ==
    [name |-> name, value |-> Str(""), expires |-> "Thu, 01 Jan 1970 00:00:00 GMT",
     path |-> "/"]

\* Variant: the response is built without deleting the cookie.
POST_logout_keepCookie(e) ==
    [status |-> 200,
     body |-> [success |-> TRUE, redirectUrl |-> Str(MarketingLogin(e)),
               error |-> Undefined],
     setCookie |-> NoCookie]

\* Variant: the redirect URL is the path /login of the application itself.
POST_logout_relativeRedirect(e) ==
    [status |-> 200,
     body |-> [success |-> TRUE, redirectUrl |-> Str("/login"), error |-> Undefined],
     setCookie |-> DeletedCookie("auth_token")]

\* export async function POST(request) of the logout route; it reads nothing
\* of the request.
POST_logout(e) ==
    [status |-> 200,
     body |-> [success |-> TRUE, redirectUrl |-> Str(MarketingLogin(e)),
               error |-> Undefined],
     setCookie |-> DeletedCookie("auth_token")]

-----------------------------------------------------------------------------
(* The route guard.                                                        *)
(*                                                                         *)
(* A pathname is the sequence of its pieces, "/dashboard" being one piece: *)
(* <<"/dashboard", "/settings">> is /dashboard/settings and                *)
(* <<"/dashboard", "-beta">> is /dashboard-beta.                           *)

DashboardRoot   == <<"/dashboard">>
AuthHandlerRoute == <<"/dashboard", "/auth">>
SettingsRoute   == <<"/dashboard", "/settings">>
HomeRoute       == <<"/">>
\* /dashboard-beta: begins with the characters of /dashboard, lies outside it
BetaRoute       == <<"/dashboard", "-beta">>

RECURSIVE PathString(_)
PathString(p) == IF p = <<>> THEN "" ELSE Head(p) \o PathString(Tail(p))

\* pathname.startsWith('/dashboard')
StartsWithDashboard(pathname) == Len(pathname) >= 1 /\ pathname[1] = "/dashboard"

\* config.matcher '/dashboard/:path*': /dashboard and everything below it
MatcherMatches(pathname) ==
    /\ StartsWithDashboard(pathname)
    /\ \A i \in 2..Len(pathname) : pathname[i] \in {"/auth", "/settings"}

NextResponse_next == [kind |-> "next", url |-> ""]
NextResponse_redirect(url) == [kind |-> "redirect", url |-> url]

\* middleware of src/middleware.ts
middleware(req) ==
    IF req.pathname = AuthHandlerRoute THEN NextResponse_next
    ELSE IF StartsWithDashboard(req.pathname)
      THEN LET authToken  == req.cookies.momentum_auth_token
               authHeader == req.headers.x_momentum_auth
           IN  IF Falsy(authToken) /\ Falsy(authHeader)
                 THEN NextResponse_redirect(MARKETING_ROUTES.LOGIN)
                 ELSE NextResponse_next
    ELSE NextResponse_next

\* Variant: SKIP_AUTH_CHECK is honoured whatever NODE_ENV is.
middleware_cookie_skipAnywhere(req, e) ==
    IF req.pathname = AuthHandlerRoute THEN NextResponse_next
    ELSE IF e.SKIP_AUTH_CHECK = Str("true")
      THEN NextResponse_next
    ELSE IF StartsWithDashboard(req.pathname)
      THEN IF Falsy(req.cookies.auth_token)
             THEN NextResponse_redirect(MarketingLogin(e))
             ELSE NextResponse_next
    ELSE NextResponse_next

\* Variant: no development bypass.
middleware_cookie_noBypass(req, e) ==
    IF req.pathname = AuthHandlerRoute THEN NextResponse_next
    ELSE IF StartsWithDashboard(req.pathname)
      THEN IF Falsy(req.cookies.auth_token)
             THEN NextResponse_redirect(MarketingLogin(e))
             ELSE NextResponse_next
    ELSE NextResponse_next

\* Variant: in development any non-empty SKIP_AUTH_CHECK switches the check off.
middleware_cookie_anyFlagValue(req, e) ==
    IF req.pathname = AuthHandlerRoute THEN NextResponse_next
    ELSE IF e.NODE_ENV = "development" /\ ~Falsy(e.SKIP_AUTH_CHECK)
      THEN NextResponse_next
    ELSE IF StartsWithDashboard(req.pathname)
      THEN IF Falsy(req.cookies.auth_token)
             THEN NextResponse_redirect(MarketingLogin(e))
             ELSE NextResponse_next
    ELSE NextResponse_next

\* middleware of the second version of the guard (unnamed/part_006)
middleware_cookie(req, e) ==
    IF req.pathname = AuthHandlerRoute THEN NextResponse_next
    ELSE IF e.NODE_ENV = "development" /\ e.SKIP_AUTH_CHECK = Str("true")
      THEN NextResponse_next
    ELSE IF StartsWithDashboard(req.pathname)
      THEN LET authToken == req.cookies.auth_token
           IN  IF Falsy(authToken)
                 THEN NextResponse_redirect(MarketingLogin(e))
                 ELSE NextResponse_next
    ELSE NextResponse_next

\* Variant: the guard runs for every request (no matcher).
RouteGuard_noMatcher(req, e) ==
    IF e.guard = "middleware.ts" THEN middleware(req)
    ELSE middleware_cookie(req, e)

\* The guard of the build in use, run for the requests its matcher selects.
RouteGuard(req, e) ==
    IF ~MatcherMatches(req.pathname) THEN NextResponse_next
    ELSE IF e.guard = "middleware.ts" THEN middleware(req)
    ELSE middleware_cookie(req, e)

\* The login URL the guard of the build in use redirects to.
GuardLoginUrl(e) ==
    IF e.guard = "middleware.ts" THEN MARKETING_ROUTES.LOGIN ELSE MarketingLogin(e)

-----------------------------------------------------------------------------
(* The browser.                                                            *)

NoMsg  == [kind |-> "none"]
NoPage == [mounted |-> FALSE]
NoProvider == [mounted |-> FALSE]
NoDashboard == [mounted |-> FALSE, loads |-> 0]

\* AuthProvider renders its children: not the loading state, not null.
ChildrenRendered(pr) == pr.mounted /\ ~pr.isChecking /\ pr.isAuthenticated

\* A session history entry: the URL of a document, reduced to whether its
\* query string carries a token.
HistoryEntry(token) == [hasToken |-> ~Falsy(token)]

\* A new entry is added to the session history (a navigation by a link, a
\* typed URL, an assignment to location.href, router.push).
PushEntry(h, token) ==
    LET a == Append(h, HistoryEntry(token))
    IN  IF Len(a) > MaxHistory THEN Tail(a) ELSE a

\* The current entry is replaced (history.replaceState).
ReplaceEntry(h, token) ==
    IF h = <<>> THEN <<HistoryEntry(token)>>
    ELSE [h EXCEPT ![Len(h)] = HistoryEntry(token)]

\* The value the browser sends for a cookie of its jar (the cookie's Max-Age
\* of 7 days lies beyond the model's clock).
CookieSent(c) == IF c = NoCookie THEN Undefined ELSE c.value

\* response.ok
Ok(resp) == resp.status >= 200 /\ resp.status <= 299

\* The kinds of net that carry a response of a route handler.
ResponseKinds == {"response", "me_response", "logout_response"}

\* The jar after a response: a Set-Cookie replaces the cookie of that name,
\* and one that has already expired removes it.
ApplySetCookie(j, msg) ==
    IF msg.kind \in ResponseKinds /\ msg.resp.setCookie # NoCookie
      THEN IF "expires" \in DOMAIN msg.resp.setCookie
             THEN [j EXCEPT ![msg.resp.setCookie.name] = NoCookie]
             ELSE [j EXCEPT ![msg.resp.setCookie.name] = msg.resp.setCookie]
      ELSE j

NoHistory == [session |-> NoMsg, loggedOut |-> FALSE]

\* The history after the client has taken the answer msg: a handoff that set
\* the session cookie starts a session, a logout that succeeded ends it.
Record(h, msg) ==
    IF msg.kind = "response" /\ msg.resp.setCookie # NoCookie
      THEN [session |-> [kind |-> "session", body |-> msg.body, resp |-> msg.resp],
            loggedOut |-> FALSE]
    ELSE IF msg.kind = "logout_response" /\ Ok(msg.resp)
      THEN [session |-> NoMsg, loggedOut |-> TRUE]
    ELSE h


-----------------------------------------------------------------------------
(* The state machine.                                                      *)

Environments ==
    [JWT_SECRET : {Undefined, Str(ServerSecret)},
     NODE_ENV : {"development", "production"},
     SKIP_AUTH_CHECK : {Undefined, Str("true")},
     NEXT_PUBLIC_MARKETING_URL : {Undefined, Str("https://staging.trymomentum.ai")},
     guard : {"middleware.ts", "part_006"},
     authPage : {"page.tsx", "part_004"}]

\* searchParams.get('token'): null without the parameter, "" for ?token=
TokenParams == TokenPool \cup {Undefined, Str("")}

RequestBodies ==
    {JsonBody(t) : t \in TokenParams \cup {Hs384Token}} \cup {NullBody, TextBody}

NavPaths == {DashboardRoot, SettingsRoute, AuthHandlerRoute, HomeRoute, BetaRoute}

Init ==
    /\ env \in Environments
    /\ now = 0
    /\ jar = [auth_token |-> NoCookie]
    /\ sessionStorage = [momentum_auth_transition |-> Undefined,
                         momentum_user_cache |-> Undefined]
    /\ location = "about:blank"
    /\ page = NoPage
    /\ net = NoMsg
    /\ hist = NoHistory
    /\ history = <<>>
    /\ localStorage = [momentum_auth_token |-> Undefined, momentum_user |-> Undefined]
    /\ provider = NoProvider
    /\ dashboard = NoDashboard

\* Date.now() advances.
Tick ==
    /\ now < MaxTime
    /\ now' = now + 1
    /\ UNCHANGED <<env, jar, sessionStorage, location, page, net, hist,
                 history, localStorage, provider, dashboard>>

\* A freshly mounted AuthHandler: useRef(false), nothing fetched yet.  resp
\* keeps what the fetch of verifyToken came back with, outcome how the
\* handoff ended (pending, NO_TOKEN, SUCCESS, INVALID_TOKEN).
NewPage(token) ==
    [mounted |-> TRUE, token |-> token, hasVerified |-> FALSE, fetches |-> 0,
     resp |-> NoMsg, outcome |-> "pending"]

\* A request for a path, as the guard reads it.
NavRequest(pathname, authCookie, mcookie, header) ==
    [pathname |-> pathname,
     cookies |-> [auth_token |-> authCookie, momentum_auth_token |-> mcookie],
     headers |-> [x_momentum_auth |-> header]]

Loading == "(loading)"

\* The browser requests a path of the application (a typed URL, a link, the
\* marketing site's redirect, a location the page assigned): it sends the
\* cookies of its jar; nothing in the application gives it a
\* momentum_auth_token cookie or an x-momentum-auth header.  The document it
\* leaves is unloaded.
Navigate(pathname, token) ==
    /\ net = NoMsg
    /\ (pathname # AuthHandlerRoute => token = Undefined)
    /\ net' = [kind |-> "navigation", from |-> "browser", token |-> token,
               req |-> NavRequest(pathname, CookieSent(jar.auth_token),
                                  Undefined, Undefined)]
    /\ page' = NoPage
    /\ provider' = NoProvider
    /\ location' = Loading
    /\ UNCHANGED <<env, now, jar, sessionStorage, hist,
                 history, localStorage, dashboard>>

\* The server runs the route guard on the navigation request in flight.
GuardRoute ==
    /\ net.kind = "navigation"
    /\ net' = [kind |-> "decision", from |-> net.from, token |-> net.token,
               req |-> net.req, decision |-> RouteGuard(net.req, env)]
    /\ UNCHANGED <<env, now, jar, sessionStorage, location, page, hist,
                 history, localStorage, provider, dashboard>>

\* The browser follows the guard's answer: to the redirect's target, or to
\* the page requested (the auth handler page mounts with its token parameter).
NavigationCommit ==
    /\ net.kind = "decision"
    /\ net.from = "browser"
    /\ net' = NoMsg
    /\ IF net.decision.kind = "redirect"
         THEN /\ location' = net.decision.url
              /\ page' = NoPage
              /\ history' = PushEntry(history, Undefined)
         ELSE /\ location' = PathString(net.req.pathname)
              /\ page' = IF net.req.pathname = AuthHandlerRoute
                           THEN NewPage(net.token) ELSE NoPage
              /\ history' = PushEntry(history,
                                IF net.req.pathname = AuthHandlerRoute
                                  THEN net.token ELSE Undefined)
    /\ UNCHANGED <<env, now, jar, sessionStorage, hist,
                 localStorage, provider, dashboard>>

\* Variant: the effect does not look whether there is a token before it calls
\* verifyToken.
AuthHandlerEffect_noTokenCheck ==
    /\ page.mounted
    /\ provider.mounted => ChildrenRendered(provider)
    /\ IF page.hasVerified
         THEN UNCHANGED <<location, page, net, history>>
       ELSE /\ page' = [page EXCEPT !.hasVerified = TRUE, !.fetches = @ + 1]
            /\ net' = [kind |-> "request", from |-> "page", body |-> JsonBody(page.token)]
            /\ UNCHANGED <<location, history>>
    /\ UNCHANGED <<env, now, jar, sessionStorage, hist,
                 localStorage, provider, dashboard>>

\* Variant: no hasVerified ref; every run of the effect with a token calls
\* verifyToken (counted up to three).
AuthHandlerEffect_noRef ==
    /\ page.mounted
    /\ provider.mounted => ChildrenRendered(provider)
    /\ IF Falsy(page.token)
         THEN /\ location' = MARKETING_ROUTES.LOGIN
              /\ page' = [page EXCEPT !.outcome = "NO_TOKEN"]
              /\ history' = IF location = MARKETING_ROUTES.LOGIN THEN history
                            ELSE PushEntry(history, Undefined)
              /\ UNCHANGED net
       ELSE /\ page.fetches < 3
            /\ page' = [page EXCEPT !.hasVerified = TRUE, !.fetches = @ + 1]
            /\ net' = [kind |-> "request", from |-> "page", body |-> JsonBody(page.token)]
            /\ UNCHANGED <<location, history>>
    /\ UNCHANGED <<env, now, jar, sessionStorage, hist,
                 localStorage, provider, dashboard>>

\* The useEffect of AuthHandler (the same in both versions of the page); React
\* may run it any number of times while the page is mounted.
AuthHandlerEffect ==
    /\ page.mounted
    /\ provider.mounted => ChildrenRendered(provider)
    /\ IF page.hasVerified
         THEN UNCHANGED <<location, page, net, history>>
       ELSE IF Falsy(page.token)
         THEN /\ location' = MARKETING_ROUTES.LOGIN
              /\ page' = [page EXCEPT !.outcome = "NO_TOKEN"]
              /\ history' = IF location = MARKETING_ROUTES.LOGIN THEN history
                            ELSE PushEntry(history, Undefined)
              /\ UNCHANGED net
       ELSE /\ page' = [page EXCEPT !.hasVerified = TRUE, !.fetches = @ + 1]
            /\ net' = [kind |-> "request", from |-> "page", body |-> JsonBody(page.token)]
            /\ UNCHANGED <<location, history>>
    /\ UNCHANGED <<env, now, jar, sessionStorage, hist,
                 localStorage, provider, dashboard>>

\* Variant: the server remembers the token of the latest successful handoff
\* and refuses it when it is presented again.
VerifyRoute_singleUse ==
    /\ net.kind = "request"
    /\ net' = [kind |-> "response", from |-> net.from, body |-> net.body,
               at |-> now,
               resp |-> IF hist.session # NoMsg /\ hist.session.body = net.body
                          THEN Json(401, FALSE, Undefined, Str("Token already used"))
                          ELSE POST(net.body, env, now)]
    /\ UNCHANGED <<env, now, jar, sessionStorage, location, page, hist,
                 history, localStorage, provider, dashboard>>

\* The server runs POST /api/auth/verify on the request in flight.
VerifyRoute ==
    /\ net.kind = "request"
    /\ net' = [kind |-> "response", from |-> net.from, body |-> net.body,
               at |-> now, resp |-> POST(net.body, env, now)]
    /\ UNCHANGED <<env, now, jar, sessionStorage, location, page, hist,
                 history, localStorage, provider, dashboard>>

\* The request does not reach the server: fetch rejects.
NetworkFailure ==
    /\ net.kind = "request"
    /\ net' = [kind |-> "error", from |-> net.from, body |-> net.body]
    /\ UNCHANGED <<env, now, jar, sessionStorage, location, page, hist,
                 history, localStorage, provider, dashboard>>

\* JSON.stringify(data.user) as sessionStorage keeps it
JSON_stringify(user) == IF user = Undefined THEN Str("undefined") ELSE [t |-> "json", v |-> user]

\* Variant: verifyToken does not look at response.ok (fetch resolves on a 401).
VerifyTokenResume_ignoreStatus ==
    /\ net.kind \in {"response", "error"}
    /\ net.from = "page"
    /\ jar' = ApplySetCookie(jar, net)
    /\ net' = NoMsg
    /\ history' = PushEntry(history, Undefined)
    /\ IF net.kind = "response"
         THEN /\ sessionStorage' =
                   IF env.authPage = "page.tsx"
                     THEN [sessionStorage EXCEPT !.momentum_auth_transition = Str("true")]
                     ELSE [sessionStorage EXCEPT
                             !.momentum_user_cache = JSON_stringify(net.resp.body.user)]
              /\ location' = PathString(DashboardRoot)
              /\ page' = [page EXCEPT !.resp = net, !.outcome = "SUCCESS"]
         ELSE /\ location' = MARKETING_ROUTES.LOGIN
              /\ page' = [page EXCEPT !.resp = net, !.outcome = "INVALID_TOKEN"]
              /\ UNCHANGED sessionStorage
    /\ hist' = Record(hist, net)
    /\ UNCHANGED <<env, now,
                 localStorage, provider, dashboard>>

\* Variant: the catch block puts a reason into the login URL.
VerifyTokenResume_reasonInUrl ==
    /\ net.kind \in {"response", "error"}
    /\ net.from = "page"
    /\ jar' = ApplySetCookie(jar, net)
    /\ net' = NoMsg
    /\ history' = PushEntry(history, Undefined)
    /\ IF net.kind = "response" /\ Ok(net.resp)
         THEN /\ sessionStorage' =
                   IF env.authPage = "page.tsx"
                     THEN [sessionStorage EXCEPT !.momentum_auth_transition = Str("true")]
                     ELSE [sessionStorage EXCEPT
                             !.momentum_user_cache = JSON_stringify(net.resp.body.user)]
              /\ location' = PathString(DashboardRoot)
              /\ page' = [page EXCEPT !.resp = net, !.outcome = "SUCCESS"]
         ELSE /\ location' = MARKETING_ROUTES.LOGIN \o "?error=invalid_token"
              /\ page' = [page EXCEPT !.resp = net, !.outcome = "INVALID_TOKEN"]
              /\ UNCHANGED sessionStorage
    /\ hist' = Record(hist, net)
    /\ UNCHANGED <<env, now,
                 localStorage, provider, dashboard>>

\* verifyToken after `await fetch(...)`: the browser has taken the response's
\* Set-Cookie; a response that is not ok, or a rejected fetch, goes to login.
VerifyTokenResume ==
    /\ net.kind \in {"response", "error"}
    /\ net.from = "page"
    /\ jar' = ApplySetCookie(jar, net)
    /\ net' = NoMsg
    /\ history' = PushEntry(history, Undefined)
    /\ IF net.kind = "response" /\ Ok(net.resp)
         THEN /\ sessionStorage' =
                   IF env.authPage = "page.tsx"
                     THEN [sessionStorage EXCEPT !.momentum_auth_transition = Str("true")]
                     ELSE [sessionStorage EXCEPT
                             !.momentum_user_cache = JSON_stringify(net.resp.body.user)]
              /\ location' = PathString(DashboardRoot)
              /\ page' = [page EXCEPT !.resp = net, !.outcome = "SUCCESS"]
         ELSE /\ location' = MARKETING_ROUTES.LOGIN
              /\ page' = [page EXCEPT !.resp = net, !.outcome = "INVALID_TOKEN"]
              /\ UNCHANGED sessionStorage
    /\ hist' = Record(hist, net)
    /\ UNCHANGED <<env, now,
                 localStorage, provider, dashboard>>

\* The locations at which the dashboard (its layout, with the sidebar's user
\* profile menu) is the document loaded.
DashboardPages == {PathString(DashboardRoot), PathString(SettingsRoute)}

\* The cookies a request of the browser carries to a route handler.
RequestCookies(authCookie) == [auth_token |-> authCookie]

\* fetchUser of useUser up to its request to /api/auth/me: a
\* momentum_user_cache entry is removed (whether or not it parses) and, on
\* either path, GET /api/auth/me is sent with the browser's cookies.
fetchUser ==
    /\ net = NoMsg
    /\ location \in DashboardPages
    /\ ~page.mounted
    /\ sessionStorage' = [sessionStorage EXCEPT !.momentum_user_cache = Undefined]
    /\ net' = [kind |-> "me_request", from |-> "browser",
               cookies |-> RequestCookies(CookieSent(jar.auth_token))]
    /\ UNCHANGED <<env, now, jar, location, page, hist,
                 history, localStorage, provider, dashboard>>

\* The server runs GET /api/auth/me on the request in flight.
MeRoute ==
    /\ net.kind = "me_request"
    /\ net' = [kind |-> "me_response", from |-> net.from, cookies |-> net.cookies,
               at |-> now, resp |-> GET(net.cookies, env, now)]
    /\ UNCHANGED <<env, now, jar, sessionStorage, location, page, hist,
                 history, localStorage, provider, dashboard>>

\* The browser has the answer of /api/auth/me and takes its Set-Cookie, if any.
fetchUserResume ==
    /\ net.kind = "me_response"
    /\ net.from = "browser"
    /\ jar' = ApplySetCookie(jar, net)
    /\ net' = NoMsg
    /\ hist' = Record(hist, net)
    /\ UNCHANGED <<env, now, sessionStorage, location, page,
                 history, localStorage, provider, dashboard>>

\* The Logout item of the user profile menu, up to its fetch.
LogoutClick ==
    /\ net = NoMsg
    /\ location \in DashboardPages
    /\ ~page.mounted
    /\ net' = [kind |-> "logout_request", from |-> "browser",
               cookies |-> RequestCookies(CookieSent(jar.auth_token))]
    /\ UNCHANGED <<env, now, jar, sessionStorage, location, page, hist,
                 history, localStorage, provider, dashboard>>

\* The server runs POST /api/auth/logout on the request in flight.
LogoutRoute ==
    /\ net.kind = "logout_request"
    /\ net' = [kind |-> "logout_response", from |-> net.from, cookies |-> net.cookies,
               at |-> now, resp |-> POST_logout(env)]
    /\ UNCHANGED <<env, now, jar, sessionStorage, location, page, hist,
                 history, localStorage, provider, dashboard>>

\* The Logout item after `await fetch(...)`: the browser has taken the
\* response's Set-Cookie; on response.ok it goes to data.redirectUrl.
LogoutResume ==
    /\ net.kind = "logout_response"
    /\ net.from = "browser"
    /\ jar' = ApplySetCookie(jar, net)
    /\ net' = NoMsg
    /\ location' = IF Ok(net.resp) THEN net.resp.body.redirectUrl.v ELSE location
    /\ history' = IF Ok(net.resp) THEN PushEntry(history, Undefined) ELSE history
    /\ hist' = Record(hist, net)
    /\ UNCHANGED <<env, now, sessionStorage, page,
                 localStorage, provider, dashboard>>

Next ==
    \/ Tick
    \/ \E pathname \in NavPaths, token \in TokenParams : Navigate(pathname, token)
    \/ GuardRoute
    \/ NavigationCommit
    \/ AuthHandlerEffect
    \/ VerifyRoute
    \/ NetworkFailure
    \/ VerifyTokenResume
    \/ fetchUser
    \/ MeRoute
    \/ fetchUserResume
    \/ LogoutClick
    \/ LogoutRoute
    \/ LogoutResume

\* The browser against the application.
Spec == Init /\ [][Next]_vars

\* useSearchParams() gives the mounted auth handler page another token
\* parameter (the query string changed without a reload).
SearchParamsChange(token) ==
    /\ page.mounted
    /\ page.token # token
    /\ page' = [page EXCEPT !.token = token]
    /\ UNCHANGED <<env, now, jar, sessionStorage, location, net, hist,
                 history, localStorage, provider, dashboard>>

\* The token parameters the search parameters change to.
ChangedTokenParams ==
    {Undefined} \cup {Sign([user |-> u, exp |-> TokenExp, iat |-> 0], ServerSecret) :
                        u \in Identities}

HandlerNext ==
    \/ Next
    \/ \E token \in ChangedTokenParams : SearchParamsChange(token)

\* The browser against the application, the auth handler page's search
\* parameters changing under it.
HandlerSpec == Init /\ [][HandlerNext]_vars

-----------------------------------------------------------------------------
(* The client-side handoff: the auth handler page that keeps the token in  *)
(* localStorage (unnamed/part_005) and the AuthProvider that wraps the     *)
(* routes of the dashboard group and checks localStorage.                  *)

\* The paths of the (dashboard) route group, which AuthProvider wraps.
GroupPaths == {DashboardRoot, SettingsRoute, AuthHandlerRoute}

\* JSON.parse(atob(token.split('.')[1])): the payload segment decoded; a
\* string without a second segment makes atob or JSON.parse throw.
DecodePayload(token) ==
    IF token.segments < 2 THEN Throw("SyntaxError", "Unexpected token")
    ELSE Return(token.payload)

\* payload.exp && payload.exp < currentTime
ExpBefore(payload, clock) == payload.exp # 0 /\ payload.exp < clock

\* A freshly mounted AuthProvider: useState(true), useState(false).  ranFor
\* is the pathname its effect last ran for, found what that run's check of
\* localStorage came to.
NewProvider(pathname) ==
    [mounted |-> TRUE, pathname |-> pathname, isChecking |-> TRUE,
     isAuthenticated |-> FALSE, ranFor |-> <<>>, found |-> "nothing"]

\* A freshly mounted auth handler page of the client-side build:
\* useState('processing'); no timer set.
NewClientPage(token) ==
    [mounted |-> TRUE, token |-> token, status |-> "processing", ran |-> FALSE,
     timer |-> "none"]

\* The document of a path of the dashboard group is loaded (a typed URL, the
\* marketing site's redirect): AuthProvider mounts, and on the handoff path
\* the auth handler page with its token parameter.
ClientLoad(pathname, token) ==
    /\ pathname # AuthHandlerRoute => token = Undefined
    /\ provider' = NewProvider(pathname)
    /\ page' = IF pathname = AuthHandlerRoute THEN NewClientPage(token) ELSE NoPage
    /\ location' = PathString(pathname)
    /\ history' = PushEntry(history, token)
    /\ UNCHANGED <<env, now, jar, sessionStorage, net, hist, localStorage, dashboard>>

\* The useEffect of AuthProvider, run after a render in which pathname has
\* changed (and after mount).
AuthProviderEffect ==
    /\ provider.mounted
    /\ provider.ranFor # provider.pathname
    /\ LET token   == localStorage.momentum_auth_token
           decoded == DecodePayload(token)
           ran     == [provider EXCEPT !.ranFor = provider.pathname]
       IN  IF provider.pathname = AuthHandlerRoute
             THEN /\ provider' = [ran EXCEPT !.isChecking = FALSE,
                                             !.isAuthenticated = TRUE,
                                             !.found = "skipped"]
                  /\ UNCHANGED <<localStorage, location, history>>
           ELSE IF Falsy(token)
             THEN /\ provider' = [ran EXCEPT !.found = "missing"]
                  /\ location' = MARKETING_ROUTES.LOGIN
                  /\ history' = PushEntry(history, Undefined)
                  /\ UNCHANGED localStorage
           ELSE IF ~decoded.ok \/ ExpBefore(decoded.value, now)
             THEN /\ provider' = [ran EXCEPT
                                     !.found = IF decoded.ok THEN "expired" ELSE "malformed"]
                  /\ localStorage' = [momentum_auth_token |-> Undefined,
                                      momentum_user |-> Undefined]
                  /\ location' = MARKETING_ROUTES.LOGIN
                  /\ history' = PushEntry(history, Undefined)
           ELSE /\ provider' = [ran EXCEPT !.isAuthenticated = TRUE,
                                           !.isChecking = FALSE,
                                           !.found = "valid"]
                /\ UNCHANGED <<localStorage, location, history>>
    /\ UNCHANGED <<env, now, jar, sessionStorage, page, net, hist, dashboard>>

\* The useEffect of the auth handler page of the client-side build, once
\* AuthProvider renders the page: the token is checked for its three
\* segments and its exp, stored, and the URL replaced; a timer is set for
\* the navigation that follows.
ClientHandoffEffect ==
    /\ page.mounted
    /\ "status" \in DOMAIN page
    /\ ChildrenRendered(provider)
    /\ ~page.ran
    /\ LET token == page.token
           failed == [page EXCEPT !.ran = TRUE, !.status = "error", !.timer = "login"]
       IN  IF Falsy(token)
             THEN /\ page' = failed
                  /\ UNCHANGED <<localStorage, location, history>>
           ELSE IF token.segments # 3 \/ ExpBefore(token.payload, now)
             THEN /\ page' = failed
                  /\ localStorage' = [momentum_auth_token |-> Undefined,
                                      momentum_user |-> Undefined]
                  /\ UNCHANGED <<location, history>>
           ELSE /\ localStorage' =
                     [momentum_auth_token |-> token,
                      momentum_user |-> IF token.payload.user = Undefined
                                          THEN localStorage.momentum_user
                                          ELSE JSON_stringify(token.payload.user)]
                /\ page' = [page EXCEPT !.ran = TRUE, !.status = "success",
                                        !.timer = "dashboard"]
                /\ history' = ReplaceEntry(history, Undefined)
                /\ location' = PathString(DashboardRoot)
    /\ UNCHANGED <<env, now, jar, sessionStorage, net, hist, provider, dashboard>>

\* The timer the auth handler page set fires: window.location.href =
\* MARKETING_ROUTES.LOGIN, or router.push('/dashboard'), a client-side
\* navigation under the mounted AuthProvider.
TimerFires ==
    /\ page.mounted
    /\ "timer" \in DOMAIN page
    /\ page.timer # "none"
    /\ history' = PushEntry(history, Undefined)
    /\ IF page.timer = "login"
         THEN /\ location' = MARKETING_ROUTES.LOGIN
              /\ page' = [page EXCEPT !.timer = "none"]
              /\ UNCHANGED provider
         ELSE /\ location' = PathString(DashboardRoot)
              /\ page' = NoPage
              /\ provider' = [provider EXCEPT !.pathname = DashboardRoot]
    /\ UNCHANGED <<env, now, jar, sessionStorage, net, hist, localStorage, dashboard>>

\* A link of the dashboard is followed: a client-side navigation under the
\* mounted AuthProvider.
ClientSideNavigate(pathname) ==
    /\ ChildrenRendered(provider)
    /\ provider.pathname \notin {AuthHandlerRoute, pathname}
    /\ location = PathString(provider.pathname)
    /\ provider' = [provider EXCEPT !.pathname = pathname]
    /\ location' = PathString(pathname)
    /\ history' = PushEntry(history, Undefined)
    /\ UNCHANGED <<env, now, jar, sessionStorage, page, net, hist, localStorage, dashboard>>

\* The navigation to the external login URL completes: the document of the
\* application is unloaded.
Unload ==
    /\ provider.mounted
    /\ location = MARKETING_ROUTES.LOGIN
    /\ provider' = NoProvider
    /\ page' = NoPage
    /\ UNCHANGED <<env, now, jar, sessionStorage, location, net, hist,
                   history, localStorage, dashboard>>

ClientSideNext ==
    \/ Tick
    \/ \E pathname \in GroupPaths, token \in TokenParams : ClientLoad(pathname, token)
    \/ AuthProviderEffect
    \/ ClientHandoffEffect
    \/ TimerFires
    \/ \E pathname \in {DashboardRoot, SettingsRoute} : ClientSideNavigate(pathname)
    \/ Unload

\* The browser against the client-side build.
ClientSideSpec == Init /\ [][ClientSideNext]_vars

-----------------------------------------------------------------------------
(* The cookie handoff under the layout of the (dashboard) route group,     *)
(* which wraps the auth handler page and the dashboard in AuthProvider.    *)

\* The browser follows the guard's answer, and the layout of the route group
\* mounts AuthProvider around the page of a path of the group.
GroupNavigationCommit ==
    /\ net.kind = "decision"
    /\ net.from = "browser"
    /\ net' = NoMsg
    /\ IF net.decision.kind = "redirect"
         THEN /\ location' = net.decision.url
              /\ page' = NoPage
              /\ provider' = NoProvider
              /\ history' = PushEntry(history, Undefined)
         ELSE /\ location' = PathString(net.req.pathname)
              /\ page' = IF net.req.pathname = AuthHandlerRoute
                           THEN NewPage(net.token) ELSE NoPage
              /\ provider' = IF net.req.pathname \in GroupPaths
                               THEN NewProvider(net.req.pathname) ELSE NoProvider
              /\ history' = PushEntry(history,
                                IF net.req.pathname = AuthHandlerRoute
                                  THEN net.token ELSE Undefined)
    /\ UNCHANGED <<env, now, jar, sessionStorage, hist, localStorage, dashboard>>

\* router.push('/dashboard') of unnamed/part_004 after a successful
\* verification: a client-side navigation, which the guard sees, under the
\* AuthProvider that stays mounted.
RouterPush ==
    /\ env.authPage = "part_004"
    /\ net = NoMsg
    /\ page.mounted
    /\ page.outcome = "SUCCESS"
    /\ provider.mounted
    /\ LET decision == RouteGuard(NavRequest(DashboardRoot, CookieSent(jar.auth_token),
                                             Undefined, Undefined), env)
       IN  IF decision.kind = "redirect"
             THEN /\ location' = decision.url
                  /\ provider' = NoProvider
             ELSE /\ location' = PathString(DashboardRoot)
                  /\ provider' = [provider EXCEPT !.pathname = DashboardRoot]
    /\ page' = NoPage
    /\ UNCHANGED <<env, now, jar, sessionStorage, net, hist, history,
                   localStorage, dashboard>>

GroupNext ==
    \/ Tick
    \/ \E pathname \in NavPaths, token \in TokenParams : Navigate(pathname, token)
    \/ GuardRoute
    \/ GroupNavigationCommit
    \/ AuthProviderEffect
    \/ AuthHandlerEffect
    \/ VerifyRoute
    \/ NetworkFailure
    \/ VerifyTokenResume
    \/ RouterPush

\* The browser against the application of src/, layout included.
GroupSpec == Init /\ [][GroupNext]_vars

-----------------------------------------------------------------------------
(* The dashboard layout and its useUser hook: the calls of fetchUser, the  *)
(* requests to /api/auth/me they have in flight, and the state they set.   *)

MaxRequests == 2
MaxLoads == 2

\* null, as useState<User | null>(null) and setUser(null) hold it
Null == [t |-> "null", v |-> ""]

\* JSON.parse of a sessionStorage entry: what JSON_stringify wrote parses back;
\* the string "undefined" is not JSON.
JSON_parse(s) ==
    IF s.t = "json" THEN Return(s.v)
    ELSE Throw("SyntaxError", "Unexpected token")

\* A freshly mounted dashboard layout: useState(false) for isInitialized
\* (src/.../dashboard/layout.tsx only), and the initial state of useUser.
\* requests are the fetches of /api/auth/me this instance has issued, in the
\* order of issue.
NewDashboard(layout, loads) ==
    [mounted |-> TRUE, loads |-> loads, layout |-> layout,
     user |-> Null, loading |-> TRUE, error |-> Null,
     isInitialized |-> FALSE, effectRan |-> FALSE, requests |-> <<>>]

\* fetch('/api/auth/me', {credentials: 'include'}) as issued
MeRequest(kind, cookies) ==
    [kind |-> kind, cookies |-> cookies, state |-> "sent", resp |-> NoMsg]

\* Variant: an entry that does not parse is left in sessionStorage.
fetchUser_begin_keepBadCache(d, cached, cookies) ==
    LET d1 == [d EXCEPT !.loading = TRUE, !.error = Null]
        parsed == JSON_parse(cached)
    IN  IF ~Falsy(cached) /\ parsed.ok
          THEN [d |-> [d1 EXCEPT !.user = parsed.value, !.loading = FALSE,
                                 !.requests = Append(@, MeRequest("verifyUserInBackground", cookies))],
                cache |-> Undefined]
        ELSE [d |-> [d1 EXCEPT !.requests = Append(@, MeRequest("fetchUser", cookies))],
              cache |-> cached]

\* fetchUser up to its first await (or its return on a cache hit): the hook
\* state d and the momentum_user_cache entry after it.
fetchUser_begin(d, cached, cookies) ==
    LET d1 == [d EXCEPT !.loading = TRUE, !.error = Null]
        parsed == JSON_parse(cached)
    IN  IF ~Falsy(cached) /\ parsed.ok
          THEN [d |-> [d1 EXCEPT !.user = parsed.value, !.loading = FALSE,
                                 !.requests = Append(@, MeRequest("verifyUserInBackground", cookies))],
                cache |-> Undefined]
        ELSE [d |-> [d1 EXCEPT !.requests = Append(@, MeRequest("fetchUser", cookies))],
              cache |-> Undefined]

\* Variant: no finally block; the 401 branch returns without setLoading(false).
fetchUser_resume_noFinally(d, r) ==
    IF r.state = "failed"
      THEN [d EXCEPT !.error = Str("Failed to fetch"), !.user = Null, !.loading = FALSE]
    ELSE IF ~Ok(r.resp)
      THEN IF r.resp.status = 401
             THEN [d EXCEPT !.user = Null]
             ELSE [d EXCEPT !.error = Str("Failed to fetch user data"),
                            !.user = Null, !.loading = FALSE]
    ELSE [d EXCEPT !.user = r.resp.body.user, !.loading = FALSE]

\* fetchUser from `await fetch(...)` on, for the request r it issued: the
\* fetch rejected (r.state = "failed") or resolved with r.resp.
fetchUser_resume(d, r) ==
    IF r.state = "failed"
      THEN [d EXCEPT !.error = Str("Failed to fetch"), !.user = Null, !.loading = FALSE]
    ELSE IF ~Ok(r.resp)
      THEN IF r.resp.status = 401
             THEN [d EXCEPT !.user = Null, !.loading = FALSE]
             ELSE [d EXCEPT !.error = Str("Failed to fetch user data"),
                            !.user = Null, !.loading = FALSE]
    ELSE [d EXCEPT !.user = r.resp.body.user, !.loading = FALSE]

\* verifyUserInBackground from `await fetch(...)` on.
verifyUserInBackground_resume(d, r) ==
    IF r.state = "answered" /\ Ok(r.resp)
      THEN [d EXCEPT !.user = r.resp.body.user]
      ELSE d

\* The layout shows the dashboard UI (sidebar and children), not the loader.
DashboardRendered(d) ==
    /\ d.mounted
    /\ ~d.loading
    /\ d.layout = "layout.tsx" => d.isInitialized

\* The tokens the marketing site hands over: for a user, and one whose
\* payload has no user claim.
HandoffTokens ==
    {Sign([user |-> u, exp |-> TokenExp, iat |-> 0], ServerSecret) : u \in {Alice, Undefined}}

\* A handoff through the auth handler page that succeeds (VerifyRoute and
\* VerifyTokenResume in one step): the session cookie is set, and the page
\* leaves the transition flag or the user cache in sessionStorage.
Handoff(token) ==
    LET resp == POST(JsonBody(token), env, now)
        msg  == [kind |-> "response", from |-> "page", body |-> JsonBody(token),
                 at |-> now, resp |-> resp]
    IN  /\ Ok(resp)
        /\ jar' = ApplySetCookie(jar, msg)
        /\ sessionStorage' =
             IF env.authPage = "page.tsx"
               THEN [sessionStorage EXCEPT !.momentum_auth_transition = Str("true")]
               ELSE [sessionStorage EXCEPT
                       !.momentum_user_cache = JSON_stringify(resp.body.user)]
        /\ dashboard' = [mounted |-> FALSE, loads |-> dashboard.loads]
        /\ UNCHANGED <<env, now, location, page, net, hist, history,
                       localStorage, provider>>

\* The document of a dashboard path is loaded: the layout mounts.
DashboardLoad(layout) ==
    /\ dashboard.loads < MaxLoads
    /\ dashboard' = NewDashboard(layout, dashboard.loads + 1)
    /\ UNCHANGED <<env, now, jar, sessionStorage, location, page, net, hist,
                   history, localStorage, provider>>

\* A call of fetchUser on the mounted instance.
FetchUserCall ==
    /\ Len(dashboard.requests) < MaxRequests
    /\ LET began == fetchUser_begin(dashboard, sessionStorage.momentum_user_cache,
                                    RequestCookies(CookieSent(jar.auth_token)))
       IN  /\ dashboard' = [began.d EXCEPT !.effectRan = TRUE]
           /\ sessionStorage' = [sessionStorage EXCEPT !.momentum_user_cache = began.cache]
    /\ UNCHANGED <<env, now, jar, location, page, net, hist, history,
                   localStorage, provider>>

\* useEffect(() => { fetchUser() }, [fetchUser]): the call on mount.
UseUserEffect ==
    /\ dashboard.mounted
    /\ ~dashboard.effectRan
    /\ FetchUserCall

\* refetch() of the hook's result, called by a component.
Refetch ==
    /\ dashboard.mounted
    /\ dashboard.effectRan
    /\ FetchUserCall

\* The server runs GET /api/auth/me on the i-th request of the instance.
MeServe(i) ==
    /\ dashboard.mounted
    /\ i \in DOMAIN dashboard.requests
    /\ dashboard.requests[i].state = "sent"
    /\ dashboard' = [dashboard EXCEPT
                       !.requests[i].state = "answered",
                       !.requests[i].resp = GET(dashboard.requests[i].cookies, env, now)]
    /\ UNCHANGED <<env, now, jar, sessionStorage, location, page, net, hist,
                   history, localStorage, provider>>

\* The i-th request does not reach the server: its fetch rejects.
MeFail(i) ==
    /\ dashboard.mounted
    /\ i \in DOMAIN dashboard.requests
    /\ dashboard.requests[i].state = "sent"
    /\ dashboard' = [dashboard EXCEPT !.requests[i].state = "failed"]
    /\ UNCHANGED <<env, now, jar, sessionStorage, location, page, net, hist,
                   history, localStorage, provider>>

\* The code after the await of the i-th request runs, in whatever order the
\* fetches settle.
Settle(i) ==
    /\ dashboard.mounted
    /\ i \in DOMAIN dashboard.requests
    /\ dashboard.requests[i].state \in {"answered", "failed"}
    /\ LET r == dashboard.requests[i]
           d == IF r.kind = "fetchUser" THEN fetchUser_resume(dashboard, r)
                ELSE verifyUserInBackground_resume(dashboard, r)
       IN  dashboard' = [d EXCEPT !.requests[i].state =
                                    IF r.state = "failed" THEN "rejected" ELSE "resolved"]
    /\ UNCHANGED <<env, now, jar, sessionStorage, location, page, net, hist,
                   history, localStorage, provider>>

\* The useEffect of the layout of src/.../dashboard/layout.tsx, which runs
\* when loading or user has changed.
DashboardLayoutEffect ==
    /\ dashboard.mounted
    /\ dashboard.layout = "layout.tsx"
    /\ ~dashboard.loading
    /\ \/ ~dashboard.isInitialized
       \/ ~Falsy(sessionStorage.momentum_auth_transition)
    /\ dashboard' = [dashboard EXCEPT !.isInitialized = TRUE]
    /\ sessionStorage' = [sessionStorage EXCEPT !.momentum_auth_transition = Undefined]
    /\ UNCHANGED <<env, now, jar, location, page, net, hist, history,
                   localStorage, provider>>

UserEnvironments ==
    [JWT_SECRET : {Undefined, Str(ServerSecret)},
     NODE_ENV : {"production"},
     SKIP_AUTH_CHECK : {Undefined},
     NEXT_PUBLIC_MARKETING_URL : {Undefined},
     guard : {"part_006"},
     authPage : {"page.tsx", "part_004"}]

UserInit ==
    /\ env \in UserEnvironments
    /\ now = 0
    /\ jar = [auth_token |-> NoCookie]
    /\ sessionStorage = [momentum_auth_transition |-> Undefined,
                         momentum_user_cache |-> Undefined]
    /\ location = "about:blank"
    /\ page = NoPage
    /\ net = NoMsg
    /\ hist = NoHistory
    /\ history = <<>>
    /\ localStorage = [momentum_auth_token |-> Undefined, momentum_user |-> Undefined]
    /\ provider = NoProvider
    /\ dashboard = NoDashboard

UserNext ==
    \/ Tick
    \/ \E token \in HandoffTokens : Handoff(token)
    \/ \E layout \in {"layout.tsx", "part_003"} : DashboardLoad(layout)
    \/ UseUserEffect
    \/ Refetch
    \/ \E i \in 1..MaxRequests : MeServe(i)
    \/ \E i \in 1..MaxRequests : MeFail(i)
    \/ \E i \in 1..MaxRequests : Settle(i)
    \/ DashboardLayoutEffect

\* The browser on the dashboard.
UserSpec == UserInit /\ [][UserNext]_vars

\* Every fetch settles: it is answered or rejects, and the code after its
\* await runs; the effect of a mounted hook runs.
UserFairness ==
    /\ WF_vars(UseUserEffect)
    /\ \A i \in 1..MaxRequests :
          /\ WF_vars(MeServe(i) \/ MeFail(i))
          /\ WF_vars(Settle(i))

UserLiveSpec == UserSpec /\ UserFairness

-----------------------------------------------------------------------------
(* The server against any HTTP client.                                     *)
(*                                                                         *)
(* The handlers keep no state, so what they answer to a request depends on *)
(* the request, the environment and the clock alone.  Here a client that   *)
(* is not the browser sends any request: any body to POST                  *)
(* /api/auth/verify, any cookies and headers with a navigation.            *)

\* Cookie and header values a client may send.
CookieValues == {Undefined, Str(""), GarbageToken, Sign([user |-> Alice, exp |-> TokenExp, iat |-> 0], ServerSecret)}
HeaderValues == {Undefined, Str("1")}

ClientPost(body) ==
    /\ net = NoMsg
    /\ net' = [kind |-> "request", from |-> "client", body |-> body]
    /\ UNCHANGED <<env, now, jar, sessionStorage, location, page, hist,
                 history, localStorage, provider, dashboard>>

ClientNavigate(pathname, authCookie, mcookie, header) ==
    /\ net = NoMsg
    /\ net' = [kind |-> "navigation", from |-> "client", token |-> Undefined,
               req |-> NavRequest(pathname, authCookie, mcookie, header)]
    /\ UNCHANGED <<env, now, jar, sessionStorage, location, page, hist,
                 history, localStorage, provider, dashboard>>

\* The auth_token cookie values a client may send to the session reader and
\* to logout: none, empty, malformed, issued (valid until TokenExp), signed
\* under another secret, issued with an incomplete user.
SessionCookieValues ==
    CookieValues
    \cup {Sign([user |-> Alice, exp |-> TokenExp, iat |-> 0], OtherSecret),
          Sign([user |-> NoEmailUser, exp |-> TokenExp, iat |-> 0], ServerSecret),
          Hs384Token}

ClientGetMe(authCookie) ==
    /\ net = NoMsg
    /\ net' = [kind |-> "me_request", from |-> "client",
               cookies |-> RequestCookies(authCookie)]
    /\ UNCHANGED <<env, now, jar, sessionStorage, location, page, hist,
                 history, localStorage, provider, dashboard>>

ClientLogout(authCookie) ==
    /\ net = NoMsg
    /\ net' = [kind |-> "logout_request", from |-> "client",
               cookies |-> RequestCookies(authCookie)]
    /\ UNCHANGED <<env, now, jar, sessionStorage, location, page, hist,
                 history, localStorage, provider, dashboard>>

\* The client takes the answer.
ClientReceive ==
    /\ net.kind \in ResponseKinds \cup {"decision"}
    /\ net.from = "client"
    /\ net' = NoMsg
    /\ hist' = Record(hist, net)
    /\ UNCHANGED <<env, now, jar, sessionStorage, location, page,
                 history, localStorage, provider, dashboard>>

ServerNext ==
    \/ Tick
    \/ \E body \in RequestBodies : ClientPost(body)
    \/ \E pathname \in NavPaths, authCookie \in CookieValues,
          mcookie \in CookieValues, header \in HeaderValues :
            ClientNavigate(pathname, authCookie, mcookie, header)
    \/ \E authCookie \in SessionCookieValues : ClientGetMe(authCookie)
    \/ \E authCookie \in SessionCookieValues : ClientLogout(authCookie)
    \/ VerifyRoute
    \/ GuardRoute
    \/ MeRoute
    \/ LogoutRoute
    \/ ClientReceive

ServerSpec == Init /\ [][ServerNext]_vars

-----------------------------------------------------------------------------
(* The server over a long time: the handoff and the session reader are     *)
(* asked again and again while the clock runs far past the tokens' exp.    *)

ClockAdvance ==
    /\ now < MaxClock
    /\ now' = now + 1
    /\ UNCHANGED <<env, jar, sessionStorage, location, page, net, hist,
                 history, localStorage, provider, dashboard>>

ClockNext ==
    \/ ClockAdvance
    \/ \E body \in RequestBodies : ClientPost(body)
    \/ \E authCookie \in SessionCookieValues : ClientGetMe(authCookie)
    \/ VerifyRoute
    \/ MeRoute
    \/ ClientReceive

ClockSpec == Init /\ [][ClockNext]_vars

-----------------------------------------------------------------------------
(* The guard alone, over more values of process.env: NODE_ENV as Node and  *)
(* Next.js set it, SKIP_AUTH_CHECK as an operator may spell it.            *)

GuardEnvironments ==
    [JWT_SECRET : {Str(ServerSecret)},
     NODE_ENV : {"development", "production", "test"},
     SKIP_AUTH_CHECK : {Undefined, Str("true"), Str("TRUE"), Str("1"), Str("false")},
     NEXT_PUBLIC_MARKETING_URL : {Undefined},
     guard : {"middleware.ts", "part_006"},
     authPage : {"page.tsx"}]

GuardInit ==
    /\ env \in GuardEnvironments
    /\ now = 0
    /\ jar = [auth_token |-> NoCookie]
    /\ sessionStorage = [momentum_auth_transition |-> Undefined,
                         momentum_user_cache |-> Undefined]
    /\ location = "about:blank"
    /\ page = NoPage
    /\ net = NoMsg
    /\ hist = NoHistory
    /\ history = <<>>
    /\ localStorage = [momentum_auth_token |-> Undefined, momentum_user |-> Undefined]
    /\ provider = NoProvider
    /\ dashboard = NoDashboard

GuardNext ==
    \/ \E pathname \in NavPaths, authCookie \in CookieValues,
          mcookie \in CookieValues, header \in HeaderValues :
            ClientNavigate(pathname, authCookie, mcookie, header)
    \/ GuardRoute
    \/ ClientReceive

GuardSpec == GuardInit /\ [][GuardNext]_vars

-----------------------------------------------------------------------------
(* What the claims speak of.                                               *)

\* The response to a POST /api/auth/verify is in flight.
VerifyAnswered == net.kind = "response"

\* The token of the request that response answers (undefined without one).
PostedToken == net.body.token

\* The shared secret is configured, and is the one the issuer signs with.
SecretConfigured == env.JWT_SECRET = Str(ServerSecret)

\* Signed under the shared secret with an HMAC algorithm, untouched (the
\* marketing site issues such tokens with HS256).
CorrectlySigned(tok) ==
    \E p \in Payloads, alg \in HmacAlgorithms : tok = SignWith(p, ServerSecret, alg)

\* Signed under another secret, or with a character of the signature altered.
Forged(tok) ==
    \E p \in Payloads : tok = Sign(p, OtherSecret) \/ tok = FlipSignature(Sign(p, ServerSecret))

Unexpired(tok, clock) == clock < tok.payload.exp

-----------------------------------------------------------------------------
(* C1: POST /api/auth/verify attaches the auth_token cookie to a response  *)
(* only after verifying that request's token: every response that carries  *)
(* a Set-Cookie stores the token its own request posted, and that token is *)
(* correctly signed under the configured secret and was unexpired when the *)
(* request was handled.                                                    *)
C1_CookieOnlyAfterVerification ==
    (VerifyAnswered /\ net.resp.setCookie # NoCookie) =>
        /\ SecretConfigured
        /\ net.body.kind = "object"
        /\ net.resp.setCookie.value = PostedToken
        /\ CorrectlySigned(PostedToken)
        /\ Unexpired(PostedToken, net.at)
        /\ net.resp.status = 200

C1_Witness ==
    /\ VerifyAnswered
    /\ net.resp.setCookie # NoCookie
    /\ net.resp.setCookie.name = "auth_token"

-----------------------------------------------------------------------------
\* The guard's answer to a navigation request is in flight.
GuardAnswered == net.kind = "decision"

\* The paths under /dashboard other than the auth handler's.
ProtectedPaths == {DashboardRoot, SettingsRoute}

\* The guard redirected to the external login URL of its build.
RedirectedToLogin(decision) ==
    decision = NextResponse_redirect(GuardLoginUrl(env))

\* The development bypass of the second guard is switched on.
DevBypass ==
    /\ env.guard = "part_006"
    /\ env.NODE_ENV = "development"
    /\ env.SKIP_AUTH_CHECK = Str("true")

(* C2, as claimed: in every environment and with any headers, a request to *)
(* a protected /dashboard path that carries no auth_token session cookie   *)
(* is redirected to the external login URL.                                *)
C2_Original ==
    (/\ GuardAnswered
     /\ net.req.pathname \in ProtectedPaths
     /\ Falsy(net.req.cookies.auth_token))
        => RedirectedToLogin(net.decision)

(* C2, amended: a request to a protected /dashboard path that carries no   *)
(* session cookie under either name (auth_token, momentum_auth_token) and  *)
(* no x-momentum-auth header is redirected to the external login URL,      *)
(* unless the development bypass (NODE_ENV = development with              *)
(* SKIP_AUTH_CHECK = true, second guard) is switched on.                   *)
C2_NoCredentialRedirects ==
    (/\ GuardAnswered
     /\ net.req.pathname \in ProtectedPaths
     /\ Falsy(net.req.cookies.auth_token)
     /\ Falsy(net.req.cookies.momentum_auth_token)
     /\ Falsy(net.req.headers.x_momentum_auth)
     /\ ~DevBypass)
        => RedirectedToLogin(net.decision)

C2_Witness ==
    /\ GuardAnswered
    /\ net.req.pathname = SettingsRoute
    /\ Falsy(net.req.cookies.auth_token)
    /\ Falsy(net.req.cookies.momentum_auth_token)
    /\ Falsy(net.req.headers.x_momentum_auth)
    /\ env.guard = "part_006"
    /\ env.NODE_ENV = "development"
    /\ env.SKIP_AUTH_CHECK = Undefined
    /\ RedirectedToLogin(net.decision)

-----------------------------------------------------------------------------
\* The auth handler page has its fetch's response.
HandoffAnswered == page.mounted /\ page.resp.kind = "response"

(* C3: after a successful handoff has set the session cookie, a request of *)
(* the browser to a protected /dashboard path that carries that cookie is  *)
(* allowed by the guard, not redirected.  (The browser's jar holds an      *)
(* auth_token cookie only from a successful handoff.)                      *)
C3_HandoffCookieAdmitted ==
    (/\ GuardAnswered
     /\ net.from = "browser"
     /\ net.req.pathname \in ProtectedPaths
     /\ jar.auth_token # NoCookie
     /\ net.req.cookies.auth_token = jar.auth_token.value)
        => net.decision.kind = "next"

(* C4: when the verification of the handed-off token fails (jwt.verify     *)
(* throws: bad structure, bad signature, expired), the handoff ends with   *)
(* the browser at the external login URL and its response sets no cookie.  *)
C4_FailedVerificationToLogin ==
    (/\ HandoffAnswered
     /\ SecretConfigured
     /\ ~jwt_verify(page.token, ServerSecret, page.resp.at).ok)
        => /\ location = MARKETING_ROUTES.LOGIN
           /\ page.outcome = "INVALID_TOKEN"
           /\ page.resp.resp.setCookie = NoCookie

C4_Witness ==
    /\ HandoffAnswered
    /\ SecretConfigured
    /\ Forged(page.token)
    /\ page.resp.resp.status = 401
    /\ location = MARKETING_ROUTES.LOGIN

(* C5: when the handoff URL has no token parameter, the auth handler goes  *)
(* to the external login URL directly: while that page is mounted no       *)
(* request is in flight, it has fetched nothing, the cookie jar does not   *)
(* change, and once its effect has run the location is the login URL.      *)
C5_NoTokenNoRequest ==
    [][(page.mounted /\ page'.mounted /\ Falsy(page.token)) =>
          /\ net' = NoMsg
          /\ page'.fetches = 0
          /\ jar' = jar
          /\ (page'.outcome # "pending" =>
                 page'.outcome = "NO_TOKEN" /\ location' = MARKETING_ROUTES.LOGIN)]_vars

C5_Witness ==
    /\ page.mounted
    /\ page.token = Undefined
    /\ page.outcome = "NO_TOKEN"
    /\ page.fetches = 0
    /\ location = MARKETING_ROUTES.LOGIN

(* C6, as claimed: after the handoff has processed an expired token, the   *)
(* browser is at the login URL and holds no auth_token cookie, whatever it *)
(* held before.                                                            *)
C6_Original ==
    (/\ HandoffAnswered
     /\ CorrectlySigned(page.token)
     /\ page.resp.at > page.token.payload.exp)
        => /\ location = MARKETING_ROUTES.LOGIN
           /\ jar.auth_token = NoCookie

(* C6, amended: when the handoff processes an expired token, the browser   *)
(* is sent to the login URL and the handoff sets no auth_token cookie: its *)
(* response carries no Set-Cookie and the cookie jar stays as it was (it   *)
(* holds no auth_token cookie if it held none before).                     *)
C6_ExpiredSetsNoCookie ==
    [][(/\ net.kind = "response"
        /\ net.from = "page"
        /\ net' = NoMsg
        /\ CorrectlySigned(PostedToken)
        /\ net.at > PostedToken.payload.exp)
          => /\ location' = MARKETING_ROUTES.LOGIN
             /\ page'.outcome = "INVALID_TOKEN"
             /\ net.resp.setCookie = NoCookie
             /\ jar' = jar]_vars

C6_Witness ==
    /\ HandoffAnswered
    /\ SecretConfigured
    /\ CorrectlySigned(page.token)
    /\ page.resp.at > page.token.payload.exp
    /\ page.outcome = "INVALID_TOKEN"
    /\ location = MARKETING_ROUTES.LOGIN
    /\ jar.auth_token # NoCookie

(* C7: for every token correctly signed with the shared secret, unexpired, *)
(* that carries an identity, POST /api/auth/verify succeeds and reports    *)
(* exactly the identity of the token's payload.                            *)
C7_ValidTokenReportsIdentity ==
    (/\ VerifyAnswered
     /\ SecretConfigured
     /\ net.body.kind = "object"
     /\ CorrectlySigned(PostedToken)
     /\ IsIdentity(PostedToken.payload.user)
     /\ Unexpired(PostedToken, net.at))
        => /\ net.resp.status = 200
           /\ net.resp.body.success
           /\ net.resp.body.user = PostedToken.payload.user

C7_Witness ==
    /\ VerifyAnswered
    /\ CorrectlySigned(PostedToken)
    /\ net.resp.status = 200
    /\ net.resp.body.user = Bob

(* C8: for every token whose signature does not verify under JWT_SECRET    *)
(* (signed with another secret, or a character of the signature altered),  *)
(* POST /api/auth/verify answers 401 'Invalid token signature' and sets no *)
(* cookie.                                                                 *)
C8_ForgedTokenRejected ==
    (/\ VerifyAnswered
     /\ SecretConfigured
     /\ net.body.kind = "object"
     /\ Forged(PostedToken))
        => /\ net.resp.status = 401
           /\ net.resp.body.error = Str("Invalid token signature")
           /\ ~net.resp.body.success
           /\ net.resp.setCookie = NoCookie

C8_Witness ==
    /\ VerifyAnswered
    /\ SecretConfigured
    /\ PostedToken = FlipSignature(Sign([user |-> Bob, exp |-> TokenExp, iat |-> 0], ServerSecret))
    /\ Unexpired(PostedToken, net.at)
    /\ net.resp.status = 401

(* C9: a correctly signed, unexpired token whose payload lacks user.id,    *)
(* user.email or user.name, or has one of them as a non-string, fails      *)
(* verification: the handoff does not succeed and no cookie is set.        *)
C9_MalformedPayloadRejected ==
    (/\ VerifyAnswered
     /\ SecretConfigured
     /\ net.body.kind = "object"
     /\ CorrectlySigned(PostedToken)
     /\ ~IsIdentity(PostedToken.payload.user)
     /\ Unexpired(PostedToken, net.at))
        => /\ ~Ok(net.resp)
           /\ net.resp.setCookie = NoCookie

(* C10: for a correctly signed token whose exp is in the past, POST        *)
(* /api/auth/verify answers with its 'Token has expired' outcome, distinct *)
(* from the invalid-signature outcome.                                     *)
C10_ExpiredClassified ==
    (/\ VerifyAnswered
     /\ SecretConfigured
     /\ net.body.kind = "object"
     /\ CorrectlySigned(PostedToken)
     /\ net.at > PostedToken.payload.exp)
        => /\ net.resp.status = 401
           /\ net.resp.body.error = Str("Token has expired")

-----------------------------------------------------------------------------
\* The response to a GET /api/auth/me is in flight.
MeAnswered == net.kind = "me_response"

\* The auth_token cookie of the request that response answers.
SessionToken == net.cookies.auth_token

\* A cookie value that is a token string (not absent, not empty).
IsToken(c) == ~Falsy(c)

(* C11: expiry is checked against the current time with a clock tolerance  *)
(* of at most 10 seconds.  Neither POST /api/auth/verify nor GET            *)
(* /api/auth/me accepts a token at a time now > exp + 10, and neither       *)
(* rejects a correctly signed token at a time now with exp > now (with the  *)
(* secret configured, such a token is accepted).                            *)
C11_ExpiryWithinTolerance ==
    /\ (VerifyAnswered /\ net.resp.status = 200)
          => ~(net.at > PostedToken.payload.exp + ClockSkewTolerance)
    /\ (MeAnswered /\ net.resp.status = 200)
          => ~(net.at > SessionToken.payload.exp + ClockSkewTolerance)
    /\ (/\ VerifyAnswered
        /\ SecretConfigured
        /\ net.body.kind = "object"
        /\ CorrectlySigned(PostedToken)
        /\ PostedToken.payload.exp > net.at)
          => net.resp.status = 200
    /\ (/\ MeAnswered
        /\ SecretConfigured
        /\ CorrectlySigned(SessionToken)
        /\ SessionToken.payload.exp > net.at)
          => net.resp.status = 200

C11_Witness ==
    /\ MeAnswered
    /\ SecretConfigured
    /\ CorrectlySigned(SessionToken)
    /\ net.at > SessionToken.payload.exp + ClockSkewTolerance
    /\ net.resp.status = 401
    /\ hist.session # NoMsg
    /\ hist.session.body.token = SessionToken

\* The cookie's token does not pass verification at the time of the request:
\* malformed, wrongly signed, or expired.
InvalidSession(tok, clock) ==
    /\ IsToken(tok)
    /\ \/ tok.segments # 3
       \/ Forged(tok)
       \/ CorrectlySigned(tok) /\ clock >= tok.payload.exp

(* C12: GET /api/auth/me answers 200 with a user only if the request's     *)
(* auth_token cookie holds a token whose signature verifies under          *)
(* JWT_SECRET and whose exp has not passed at the time of the request, and *)
(* the user it returns is the one embedded in that token.                  *)
C12_MeOnlyForVerifiedCookie ==
    (MeAnswered /\ net.resp.status = 200) =>
        /\ ~Falsy(env.JWT_SECRET)
        /\ IsToken(SessionToken)
        /\ SessionToken.segments = 3
        /\ SessionToken.sig =
             Hmac(env.JWT_SECRET.v, SessionToken.alg, SessionToken.payload)
        /\ Unexpired(SessionToken, net.at)
        /\ net.resp.body.user = SessionToken.payload.user
        /\ net.resp.body.error = Undefined

C12_Witness ==
    /\ MeAnswered
    /\ net.resp.status = 200
    /\ net.resp.body.user = Alice

(* C13: with JWT_SECRET configured, GET /api/auth/me answers every request *)
(* with status 200 or 401, and a request without an auth_token cookie, or  *)
(* whose cookie holds an expired, malformed or wrongly signed token, with  *)
(* 401 and an {error} body without a user.                                 *)
C13_MeUnauthenticatedIs401 ==
    (MeAnswered /\ SecretConfigured) =>
        /\ net.resp.status \in {200, 401}
        /\ (Falsy(SessionToken) \/ InvalidSession(SessionToken, net.at)) =>
               /\ net.resp.status = 401
               /\ TypeOf(net.resp.body.error) = "string"
               /\ net.resp.body.user = Undefined

C13_Witness ==
    /\ MeAnswered
    /\ SecretConfigured
    /\ CorrectlySigned(SessionToken)
    /\ net.at >= SessionToken.payload.exp
    /\ net.resp.status = 401
    /\ net.resp.body.error = Str("Invalid token")

(* C14: whenever GET /api/auth/me finds the auth_token cookie invalid (bad *)
(* signature, malformed, or expired), its response clears that cookie.     *)
C14_InvalidCookieCleared ==
    (/\ MeAnswered
     /\ SecretConfigured
     /\ InvalidSession(SessionToken, net.at))
        => net.resp.setCookie = DeletedCookie("auth_token")

-----------------------------------------------------------------------------
\* A session is established: the client holds the answer of a successful
\* handoff and has not logged out since.
SessionEstablished == hist.session # NoMsg

(* C15: round trip.  After POST /api/auth/verify has succeeded for a token *)
(* and set the session cookie, a GET /api/auth/me of the browser that      *)
(* carries that cookie while the token is unexpired answers 200 with       *)
(* exactly the user verify returned.                                       *)
C15_VerifyThenMeSameUser ==
    (/\ MeAnswered
     /\ net.from = "browser"
     /\ SessionEstablished
     /\ SessionToken = hist.session.resp.setCookie.value
     /\ Unexpired(SessionToken, net.at))
        => /\ net.resp.status = 200
           /\ net.resp.body.user = hist.session.resp.body.user

C15_Witness ==
    /\ MeAnswered
    /\ net.from = "browser"
    /\ SessionEstablished
    /\ jar.auth_token = hist.session.resp.setCookie
    /\ SessionToken = jar.auth_token.value
    /\ net.resp.status = 200
    /\ net.resp.body.user = Bob

C17_TokenConsumedOnce ==
    (/\ VerifyAnswered
     /\ SessionEstablished
     /\ net.body = hist.session.body)
        => /\ ~Ok(net.resp)
           /\ net.resp.setCookie = NoCookie

-----------------------------------------------------------------------------
\* The response to a POST /api/auth/logout is in flight.
LogoutAnswered == net.kind = "logout_response"

C19_Original ==
    hist.loggedOut =>
        /\ (MeAnswered /\ net.from = "browser") => net.resp.status = 401
        /\ (/\ GuardAnswered
            /\ net.from = "browser"
            /\ net.req.pathname \in ProtectedPaths)
              => RedirectedToLogin(net.decision)

(* C19, amended: after POST /api/auth/logout has succeeded and until a new *)
(* successful handoff, the browser holds no auth_token cookie, every GET   *)
(* /api/auth/me of it answers 401, and every request of it to a guarded    *)
(* /dashboard path is redirected to login unless the development bypass    *)
(* (NODE_ENV = development with SKIP_AUTH_CHECK = true, second guard) is   *)
(* switched on.                                                            *)
C19_LogoutEndsSession ==
    hist.loggedOut =>
        /\ jar.auth_token = NoCookie
        /\ (MeAnswered /\ net.from = "browser") => net.resp.status = 401
        /\ (/\ GuardAnswered
            /\ net.from = "browser"
            /\ net.req.pathname \in ProtectedPaths
            /\ ~DevBypass)
              => RedirectedToLogin(net.decision)

C19_Witness ==
    /\ hist.loggedOut
    /\ GuardAnswered
    /\ net.from = "browser"
    /\ net.req.pathname = DashboardRoot
    /\ env.guard = "part_006"
    /\ RedirectedToLogin(net.decision)

(* C20: the auth_token cookie a handoff issues expires no later than the   *)
(* token the handoff verified: the time of issue plus the cookie's Max-Age *)
(* is at most the token's exp.                                             *)
C20_CookieWithinTokenLifetime ==
    (VerifyAnswered /\ net.resp.setCookie # NoCookie)
        => net.at + net.resp.setCookie.maxAge <= PostedToken.payload.exp

-----------------------------------------------------------------------------
\* The handoff of the mounted auth handler page has failed: no token, or the
\* verification request did not succeed.
HandoffFailed(pg) == pg.mounted /\ pg.outcome \in {"NO_TOKEN", "INVALID_TOKEN"}

C23_NoSecretNothingServed ==
    Falsy(env.JWT_SECRET) =>
        /\ (GuardAnswered /\ net.req.pathname \in ProtectedPaths)
              => net.decision.kind # "next"
        /\ VerifyAnswered => (~Ok(net.resp) /\ net.resp.setCookie = NoCookie)
        /\ MeAnswered => ~Ok(net.resp)

(* C24: every session cookie the handoff issues is named auth_token and    *)
(* carries HttpOnly, SameSite=Lax, Path=/, Max-Age=604800, and carries the *)
(* Secure flag whenever the application runs in production.                *)
C24_CookieAttributes ==
    (VerifyAnswered /\ net.resp.setCookie # NoCookie) =>
        /\ net.resp.setCookie.name = "auth_token"
        /\ net.resp.setCookie.httpOnly
        /\ net.resp.setCookie.sameSite = "lax"
        /\ net.resp.setCookie.path = "/"
        /\ net.resp.setCookie.maxAge = 604800
        /\ (env.NODE_ENV = "production" => net.resp.setCookie.secure)

-----------------------------------------------------------------------------
\* The paths of the model outside the /dashboard prefix.
OutsideDashboard == {HomeRoute, BetaRoute}

\* The request carries no credential a guard looks at.
NoCredentials(req) ==
    /\ Falsy(req.cookies.auth_token)
    /\ Falsy(req.cookies.momentum_auth_token)
    /\ Falsy(req.headers.x_momentum_auth)

(* C25: the route guard lets every request to the handoff path             *)
(* /dashboard/auth through, with or without a session, in every            *)
(* configuration, and lets every request to a path outside the /dashboard  *)
(* prefix through without a session check.                                 *)
C25_HandoffPathAlwaysOpen ==
    (/\ GuardAnswered
     /\ net.req.pathname \in {AuthHandlerRoute} \cup OutsideDashboard)
        => net.decision = NextResponse_next

C25_Witness ==
    /\ GuardAnswered
    /\ net.req.pathname = AuthHandlerRoute
    /\ NoCredentials(net.req)
    /\ env.NODE_ENV = "production"
    /\ env.guard = "part_006"
    /\ net.decision = NextResponse_next

(* C26: a token is accepted only if its signature was produced with HS256  *)
(* under the shared secret: neither POST /api/auth/verify nor GET          *)
(* /api/auth/me accepts a token signed under any other algorithm.          *)
C26_OnlyHs256Accepted ==
    /\ (VerifyAnswered /\ Ok(net.resp)) => PostedToken.alg = "HS256"
    /\ (MeAnswered /\ Ok(net.resp)) => SessionToken.alg = "HS256"

C28_NoTokenIs400 ==
    (VerifyAnswered /\ (net.body.kind # "object" \/ Falsy(net.body.token)))
        => /\ net.resp.status = 400
           /\ net.resp.body.error = Str("Token is required")

(* C30: the auth handler page sends at most one POST /api/auth/verify per  *)
(* mounted page instance, however often its effect runs and whatever its   *)
(* search parameters change to: a request leaves the page only while it    *)
(* has sent none, and from then on hasVerified is set.                     *)
C30_AtMostOneVerify ==
    /\ page.mounted => (page.fetches <= 1 /\ (page.fetches = 1 <=> page.hasVerified))
    /\ (net.kind = "request" /\ net.from = "page") => page.fetches = 1

C30_Witness ==
    /\ page.mounted
    /\ page.fetches = 1
    /\ page.resp.kind = "response"
    /\ ~Falsy(page.token)
    /\ page.token # page.resp.body.token

-----------------------------------------------------------------------------
(* C21: after a successful handoff the browser ends on /dashboard with no  *)
(* token in the visible URL, no entry of the session history carries the   *)
(* token, and no later request of the browser transmits the token again.   *)
C21_TokenLeavesBrowser ==
    /\ (HandoffAnswered /\ page.outcome = "SUCCESS") =>
          /\ location = "/dashboard"
          /\ \A i \in DOMAIN history : ~history[i].hasToken
    /\ (/\ SessionEstablished
        /\ net.kind \in {"me_request", "logout_request"}
        /\ net.from = "browser")
          => net.cookies.auth_token # hist.session.body.token
    /\ (/\ SessionEstablished
        /\ net.kind = "navigation"
        /\ net.from = "browser")
          => net.req.cookies.auth_token # hist.session.body.token

(* C29: AuthProvider renders its children on a path other than             *)
(* /dashboard/auth only if its check has run for the current pathname and  *)
(* found in localStorage a momentum_auth_token that decodes and is not     *)
(* expired; in particular not while a redirect to login is pending after a *)
(* check that found no token.                                              *)
C29_ChildrenOnlyIfAuthenticated ==
    (ChildrenRendered(provider) /\ provider.pathname # AuthHandlerRoute) =>
        /\ provider.ranFor = provider.pathname
        /\ provider.found = "valid"

(* C31: in the client-side handoff a token whose signature does not verify *)
(* under the shared secret takes the failure path: it is never stored in   *)
(* localStorage as momentum_auth_token, and the handler never reports       *)
(* success for it (it redirects to login, not to /dashboard).              *)
C31_ForgedTokenNotStored ==
    /\ ~Falsy(localStorage.momentum_auth_token)
          => CorrectlySigned(localStorage.momentum_auth_token)
    /\ (page.mounted /\ "status" \in DOMAIN page /\ page.status = "success")
          => CorrectlySigned(page.token)

\* The flag SKIP_AUTH_CHECK taken out of an environment.
WithoutSkipFlag(e) == [e EXCEPT !.SKIP_AUTH_CHECK = Undefined]

-----------------------------------------------------------------------------
\* Every request of the mounted useUser instance has settled and the code
\* after its await has run.
AllSettled(d) ==
    \A i \in DOMAIN d.requests : d.requests[i].state \in {"resolved", "rejected"}

\* The i-th request of the instance settles in this step.
Settles(i) ==
    /\ dashboard.mounted /\ dashboard'.mounted
    /\ i \in DOMAIN dashboard.requests
    /\ i \in DOMAIN dashboard'.requests
    /\ dashboard.requests[i].state \in {"answered", "failed"}
    /\ dashboard'.requests[i].state \in {"resolved", "rejected"}

\* fetchUser is called on the mounted instance in this step.
FetchUserCalled ==
    /\ dashboard.mounted /\ dashboard'.mounted
    /\ Len(dashboard'.requests) = Len(dashboard.requests) + 1

\* The user a settled request to /api/auth/me reported: the identity of a
\* 200, null for a 401, another status or a rejected fetch.
ReportedUser(r) ==
    IF r.state = "resolved" /\ Ok(r.resp) THEN r.resp.body.user ELSE Null

(* C32: whenever the mounted hook is loading, it eventually is not loading *)
(* with every request it issued settled (or the document is left),         *)
(* whatever the outcome of each request: 200, 401, another status, a       *)
(* network failure; a cache hit leaves loading false at once.              *)
C32_LoadingEnds ==
    (dashboard.mounted /\ dashboard.loading)
        ~> (~dashboard.mounted \/ (~dashboard.loading /\ AllSettled(dashboard)))

C32_Witness ==
    /\ dashboard.mounted
    /\ ~dashboard.loading
    /\ AllSettled(dashboard)
    /\ Len(dashboard.requests) = 2
    /\ dashboard.requests[1].kind = "fetchUser"
    /\ dashboard.requests[1].state = "rejected"
    /\ dashboard.requests[2].state = "resolved"
    /\ dashboard.requests[2].resp.status = 401

(* C33: when a fetchUser call completes on a 401, user is null and error   *)
(* is null; on another non-OK status or a rejected fetch, user is null and *)
(* error is a message; on a 200, user is the response's user and error is  *)
(* null.                                                                   *)
C33_OutcomeOfFetchUser ==
    [][\A i \in 1..MaxRequests :
         (Settles(i) /\ dashboard.requests[i].kind = "fetchUser") =>
            LET r == dashboard.requests[i] IN
            IF r.state = "failed" \/ (~Ok(r.resp) /\ r.resp.status # 401)
              THEN dashboard'.user = Null /\ dashboard'.error # Null
            ELSE IF r.resp.status = 401
              THEN dashboard'.user = Null /\ dashboard'.error = Null
            ELSE dashboard'.user = r.resp.body.user /\ dashboard'.error = Null]_vars

(* C34: every call of fetchUser leaves sessionStorage without a            *)
(* momentum_user_cache entry, whether the entry parsed or not, and a call  *)
(* that finds no entry takes no user from a cache: it sends a fetchUser     *)
(* request to /api/auth/me and leaves user as it was.                      *)
C34_CacheIsOneShot ==
    [][FetchUserCalled =>
         /\ sessionStorage'.momentum_user_cache = Undefined
         /\ Falsy(sessionStorage.momentum_user_cache) =>
               /\ dashboard'.requests[Len(dashboard'.requests)].kind = "fetchUser"
               /\ dashboard'.user = dashboard.user]_vars

C34_Witness ==
    /\ env.authPage = "part_004"
    /\ dashboard.mounted
    /\ dashboard.loads = 1
    /\ jar.auth_token # NoCookie
    /\ jar.auth_token.value.payload.user = Undefined
    /\ Len(dashboard.requests) = 1
    /\ dashboard.requests[1].kind = "fetchUser"
    /\ sessionStorage.momentum_user_cache = Undefined

(* C35: once the background verification of a user taken from the cache    *)
(* has completed (and no other call was made), user is the identity        *)
(* /api/auth/me returned, and null if it answered 401 or the fetch failed. *)
C35_BackgroundVerificationDecides ==
    (/\ dashboard.mounted
     /\ Len(dashboard.requests) = 1
     /\ dashboard.requests[1].kind = "verifyUserInBackground"
     /\ AllSettled(dashboard))
        => dashboard.user = ReportedUser(dashboard.requests[1])

(* C36: once several requests of one useUser instance have all completed,  *)
(* in whatever order their responses arrived, user is what the most        *)
(* recently issued request reported.                                       *)
C36_LatestRequestWins ==
    (/\ dashboard.mounted
     /\ Len(dashboard.requests) >= 2
     /\ AllSettled(dashboard))
        => dashboard.user = ReportedUser(dashboard.requests[Len(dashboard.requests)])

(* C38: the layout shows the dashboard UI only when useUser is not loading *)
(* and has a user: never while loading, never with user = null.            *)
C38_DashboardOnlyForUser ==
    DashboardRendered(dashboard) =>
        /\ ~dashboard.loading
        /\ dashboard.user # Null

(* C37: after a successful cookie handoff (the session cookie was set and  *)
(* the browser sent to /dashboard), the check AuthProvider runs for        *)
(* /dashboard admits the user: it finds a valid token and does not send    *)
(* the browser to the external login.                                      *)
C37_HandoffReachesDashboard ==
    (/\ SessionEstablished
     /\ provider.mounted
     /\ provider.pathname = DashboardRoot
     /\ provider.ranFor = DashboardRoot)
        => /\ provider.found = "valid"
           /\ location # MARKETING_ROUTES.LOGIN

====
